---- MODULE Spec2Model ----
(***************************************************************************)
(* zoloto.marker.Marker: one detected fiducial marker, its lazily resolved *)
(* and memoized pose vectors, the accessors derived from them, and the     *)
(* as_dict / from_dict serialisation.                                      *)
(*                                                                         *)
(* Number representation.  Pixel coordinates and sizes are integers.  The  *)
(* only non-integral arithmetic of the class is `size / 2` in pixel_centre *)
(* (true division), so a pixel_centre component is held as TWICE its value *)
(* (an integer), which is exact.  arctan2 is kept as an uninterpreted term.*)
(* int(linalg.norm(v)) is the integer square root of the sum of squares.   *)
(***************************************************************************)
EXTENDS Integers, Sequences, FiniteSets, TLC

\* ---------------------------------------------------------------- bounds
\* Largest component of a translation vector the estimator / a caller supplies.
MaxVec == 2
\* Cap of the estimator-invocation counter (the mock's call count).
MaxCalls == 3

\* ------------------------------------------------------ program constants
MARKER_SIZE == 200
MARKER_ID == 25

\* --------------------------------------------------------- Python values
\* Optional[T]: None is the empty tuple, a present value v is <<v>>.
None == <<>>
Some(v) == <<v>>

NoError == "ok"
MissingCalibrationsError == "MissingCalibrationsError"

\* numpy.array(list): an ndarray of the list's numbers (Python floats give float64).
array(list) == [type |-> "ndarray", dtype |-> "float64", data |-> list]
\* The ndarray the detector hands to the constructor (float32 corners).
detected(list) == [type |-> "ndarray", dtype |-> "float32", data |-> list]
\* ndarray.tolist() and list(ndarray): the plain (nested) list of the numbers.
tolist(a) == a.data

\* int(linalg.norm(v)) for a 3-vector: truncation of the Euclidean norm.
SumSq(v) == v[1] * v[1] + v[2] * v[2] + v[3] * v[3]
int_norm(v) == CHOOSE k \in 0..SumSq(v) : k * k <= SumSq(v) /\ (k + 1) * (k + 1) > SumSq(v)
\* numpy.arctan2(a, b), uninterpreted.
arctan2(a, b) == <<"arctan2", a, b>>

\* coords.py value types (named tuples).
Coordinates(x, y) == [x |-> x, y |-> y]
ThreeDCoordinates(v) == [x |-> v[1], y |-> v[2], z |-> v[3]]
Orientation(v) == [rot_x |-> v[1], rot_y |-> v[2], rot_z |-> v[3]]
Spherical(rx, ry, d) == [rot_x |-> rx, rot_y |-> ry, dist |-> d]

\* ------------------------------------------------------------ input sets
\* The polygon the test camera draws: a square of `side` pixels inside a border.
Square(border, side) ==
    << <<border, border>>, <<border + side - 1, border>>,
       <<border + side - 1, border + side - 1>>, <<border, border + side - 1>> >>
\* What the detector reports and the camera adds: id, corner polygon, size.
\* The test camera's square, and a skewed polygon with an odd size.
Detections ==
    { [id |-> MARKER_ID, corners |-> Square(10, MARKER_SIZE), size |-> MARKER_SIZE],
      [id |-> 0, corners |-> << <<10, 12>>, <<209, 14>>, <<207, 209>>, <<8, 205>> >>,
       size |-> 5] }
RVecs == { <<-3, 0, 0>>, <<0, -1, -2>> }
TVecs == { <<MaxVec, 0, z>> : z \in 1..MaxVec }
Poses == { <<array(r), array(t)>> : r \in RVecs, t \in TVecs }
CalibrationParameters == [camera_matrix |-> "camera_matrix",
                          distance_coefficients |-> "distance_coefficients"]

\* aruco.estimatePoseSingleMarkers(corners, size, camera_matrix, dist_coeffs):
\* the external estimator.  Its outputs are (rvecs, tvecs, objPoints) with one
\* 1x3 row per polygon; which pose it reports is not decided by this code.
estimatePoseSingleMarkers(corners, size, camera_matrix, distance_coefficients) ==
    { << << <<p[1]>> >>, << <<p[2]>> >>, "objPoints" >> : p \in Poses }
EstimatorOutputs ==
    estimatePoseSingleMarkers(<<Square(10, MARKER_SIZE)>>, MARKER_SIZE,
                              "camera_matrix", "distance_coefficients")

\* ---------------------------------------------------------------- Marker
\* Marker.__init__: the five private fields, plus the instance's memo cells:
\* the cached_property entries of __dict__ and this instance's lru_cache entry.
Marker(marker_id, corners, size, calibration_params, precalculated_vectors) ==
    [ id |-> marker_id,
      pixel_corners |-> corners,
      size |-> size,
      camera_calibration_params |-> calibration_params,
      precalculated_vectors |-> precalculated_vectors,
      cached_pixel_centre |-> None,
      cached_distance |-> None,
      cached_spherical |-> None,
      cached_pose_vectors |-> None ]

\* The outcome of a call: the instance afterwards, the exception raised (or
\* NoError), the value returned, and how often the estimator was invoked.
Ok(self, v, n) == [self |-> self, exc |-> NoError, val |-> Some(v), calls |-> n]
Raise(self, e, n) == [self |-> self, exc |-> e, val |-> None, calls |-> n]

id(self) == Ok(self, self.id, 0)

size(self) == Ok(self, self.size, 0)

is_eager(self) == Ok(self, self.precalculated_vectors # None, 0)

pixel_corners(self) ==
    Ok(self, [i \in 1..Len(tolist(self.pixel_corners)) |->
                 Coordinates(tolist(self.pixel_corners)[i][1],
                             tolist(self.pixel_corners)[i][2])], 0)

\* pixel_centre with the -1 applied to y as well as to x.
pixel_centre_symmetric(self) ==
    IF self.cached_pixel_centre # None
    THEN Ok(self, self.cached_pixel_centre[1], 0)
    ELSE LET tl == tolist(self.pixel_corners)[1]
             br == tolist(self.pixel_corners)[3]
             c == Coordinates(2 * tl[1] + self.size - 2, 2 * br[2] - self.size - 2)
         IN Ok([self EXCEPT !.cached_pixel_centre = Some(c)], c, 0)

\* Both components are twice the value the code computes (see the header).
pixel_centre(self) ==
    IF self.cached_pixel_centre # None
    THEN Ok(self, self.cached_pixel_centre[1], 0)
    ELSE LET tl == tolist(self.pixel_corners)[1]
             br == tolist(self.pixel_corners)[3]
             c == Coordinates(2 * tl[1] + self.size - 2, 2 * br[2] - self.size)
         IN Ok([self EXCEPT !.cached_pixel_centre = Some(c)], c, 0)

\* get_pose_vectors testing the calibration parameters before the
\* precalculated vectors.
get_pose_vectors_calibration_first(self, est) ==
    IF self.cached_pose_vectors # None
    THEN Ok(self, self.cached_pose_vectors[1], 0)
    ELSE IF self.camera_calibration_params # None
    THEN LET pair == <<est[1][1][1], est[2][1][1]>>
         IN Ok([self EXCEPT !.cached_pose_vectors = Some(pair)], pair, 1)
    ELSE IF self.precalculated_vectors # None
    THEN Ok([self EXCEPT !.cached_pose_vectors = self.precalculated_vectors],
            self.precalculated_vectors[1], 0)
    ELSE Raise(self, MissingCalibrationsError, 0)

\* get_pose_vectors without the test for missing calibration parameters: the
\* attribute access on None fails instead.
get_pose_vectors_unchecked(self, est) ==
    IF self.cached_pose_vectors # None
    THEN Ok(self, self.cached_pose_vectors[1], 0)
    ELSE IF self.precalculated_vectors # None
    THEN Ok([self EXCEPT !.cached_pose_vectors = self.precalculated_vectors],
            self.precalculated_vectors[1], 0)
    ELSE IF self.camera_calibration_params = None
    THEN Raise(self, "AttributeError", 0)
    ELSE LET pair == <<est[1][1][1], est[2][1][1]>>
         IN Ok([self EXCEPT !.cached_pose_vectors = Some(pair)], pair, 1)

\* get_pose_vectors memoizing the estimate in the precalculated_vectors field.
get_pose_vectors_memo_in_field(self, est) ==
    IF self.precalculated_vectors # None
    THEN Ok(self, self.precalculated_vectors[1], 0)
    ELSE IF self.camera_calibration_params = None
    THEN Raise(self, MissingCalibrationsError, 0)
    ELSE LET pair == <<est[1][1][1], est[2][1][1]>>
         IN Ok([self EXCEPT !.precalculated_vectors = Some(pair)], pair, 1)

\* get_pose_vectors without the lru_cache.
get_pose_vectors_uncached(self, est) ==
    IF self.precalculated_vectors # None
    THEN Ok(self, self.precalculated_vectors[1], 0)
    ELSE IF self.camera_calibration_params = None
    THEN Raise(self, MissingCalibrationsError, 0)
    ELSE Ok(self, <<est[1][1][1], est[2][1][1]>>, 1)

\* est: what the estimator returns if this call invokes it.
get_pose_vectors(self, est) ==
    IF self.cached_pose_vectors # None
    THEN Ok(self, self.cached_pose_vectors[1], 0)
    ELSE IF self.precalculated_vectors # None
    THEN Ok([self EXCEPT !.cached_pose_vectors = self.precalculated_vectors],
            self.precalculated_vectors[1], 0)
    ELSE IF self.camera_calibration_params = None
    THEN Raise(self, MissingCalibrationsError, 0)
    ELSE LET pair == <<est[1][1][1], est[2][1][1]>>
         IN Ok([self EXCEPT !.cached_pose_vectors = Some(pair)], pair, 1)

rvec(self, est) ==
    LET r == get_pose_vectors(self, est)
    IN IF r.exc # NoError THEN r ELSE Ok(r.self, r.val[1][1], r.calls)

tvec(self, est) ==
    LET r == get_pose_vectors(self, est)
    IN IF r.exc # NoError THEN r ELSE Ok(r.self, r.val[1][2], r.calls)

distance(self, est) ==
    IF self.cached_distance # None
    THEN Ok(self, self.cached_distance[1], 0)
    ELSE LET t == tvec(self, est)
         IN IF t.exc # NoError THEN t
            ELSE LET d == int_norm(tolist(t.val[1]))
                 IN Ok([t.self EXCEPT !.cached_distance = Some(d)], d, t.calls)

orientation(self, est) ==
    LET r == rvec(self, est)
    IN IF r.exc # NoError THEN r
       ELSE Ok(r.self, Orientation(tolist(r.val[1])), r.calls)

\* spherical taking its own, rounded, norm instead of self.distance.
round_norm(v) ==
    CHOOSE k \in 0..SumSq(v) :
        (2 * k - 1) * (2 * k - 1) <= 4 * SumSq(v) /\ 4 * SumSq(v) < (2 * k + 1) * (2 * k + 1)
spherical_own_norm(self, est) ==
    IF self.cached_spherical # None
    THEN Ok(self, self.cached_spherical[1], 0)
    ELSE LET t == tvec(self, est)
         IN IF t.exc # NoError THEN t
            ELSE LET v == tolist(t.val[1])
                     s == Spherical(arctan2(v[2], v[3]), arctan2(v[1], v[3]),
                                    round_norm(v))
                 IN Ok([t.self EXCEPT !.cached_spherical = Some(s)], s, t.calls)

spherical(self, est) ==
    IF self.cached_spherical # None
    THEN Ok(self, self.cached_spherical[1], 0)
    ELSE LET t == tvec(self, est)
         IN IF t.exc # NoError THEN t
            ELSE LET v == tolist(t.val[1])
                     d == distance(t.self, est)
                 IN IF d.exc # NoError THEN Raise(d.self, d.exc, t.calls + d.calls)
                    ELSE LET s == Spherical(arctan2(v[2], v[3]), arctan2(v[1], v[3]),
                                            d.val[1])
                         IN Ok([d.self EXCEPT !.cached_spherical = Some(s)], s,
                               t.calls + d.calls)

cartesian(self, est) ==
    LET t == tvec(self, est)
    IN IF t.exc # NoError THEN t
       ELSE Ok(t.self, ThreeDCoordinates(tolist(t.val[1])), t.calls)

\* as_dict without the try / except: the error reaches the caller.
as_dict_uncaught(self, est) ==
    LET r == rvec(self, est)
        t == tvec(r.self, est)
    IN IF r.exc # NoError THEN r
       ELSE IF t.exc # NoError THEN Raise(t.self, t.exc, r.calls + t.calls)
       ELSE Ok(t.self,
               [ id |-> self.id, size |-> self.size,
                 pixel_corners |-> tolist(self.pixel_corners),
                 rvec |-> tolist(r.val[1]), tvec |-> tolist(t.val[1]) ],
               r.calls + t.calls)

\* A dict is a function on its keys.  Only MissingCalibrationsError is caught.
as_dict(self, est) ==
    LET marker_dict == [ id |-> id(self).val[1],
                         size |-> size(self).val[1],
                         pixel_corners |-> tolist(self.pixel_corners) ]
        r == rvec(self, est)
        t == tvec(r.self, est)
    IN IF r.exc = MissingCalibrationsError
       THEN Ok(r.self, marker_dict, r.calls)
       ELSE IF r.exc # NoError THEN r
       ELSE IF t.exc = MissingCalibrationsError
       THEN Ok(t.self, marker_dict, r.calls + t.calls)
       ELSE IF t.exc # NoError THEN Raise(t.self, t.exc, r.calls + t.calls)
       ELSE Ok(t.self,
               [ id |-> marker_dict.id, size |-> marker_dict.size,
                 pixel_corners |-> marker_dict.pixel_corners,
                 rvec |-> tolist(r.val[1]), tvec |-> tolist(t.val[1]) ],
               r.calls + t.calls)

\* from_dict handing (tvec, rvec) instead of (rvec, tvec) to the constructor.
from_dict_swapped(marker_dict) ==
    IF "rvec" \in DOMAIN marker_dict /\ "tvec" \in DOMAIN marker_dict
    THEN Marker(marker_dict["id"], array(marker_dict["pixel_corners"]),
                marker_dict["size"], None,
                Some(<<array(marker_dict["tvec"]), array(marker_dict["rvec"])>>))
    ELSE Marker(marker_dict["id"], array(marker_dict["pixel_corners"]),
                marker_dict["size"], None, None)

\* from_dict filling absent pose keys with a default (dict.get) and always
\* handing a pair to the constructor.
from_dict_default_pose(marker_dict) ==
    Marker(marker_dict["id"], array(marker_dict["pixel_corners"]),
           marker_dict["size"], None,
           Some(<<array(IF "rvec" \in DOMAIN marker_dict
                        THEN marker_dict["rvec"] ELSE <<0, 0, 0>>),
                  array(IF "tvec" \in DOMAIN marker_dict
                        THEN marker_dict["tvec"] ELSE <<0, 0, 0>>)>>))

\* from_dict testing `"rvec" in d or "tvec" in d`.
from_dict_either_key(marker_dict) ==
    IF "rvec" \in DOMAIN marker_dict \/ "tvec" \in DOMAIN marker_dict
    THEN from_dict_default_pose(marker_dict)
    ELSE Marker(marker_dict["id"], array(marker_dict["pixel_corners"]),
                marker_dict["size"], None, None)

from_dict(marker_dict) ==
    IF "rvec" \in DOMAIN marker_dict /\ "tvec" \in DOMAIN marker_dict
    THEN Marker(marker_dict["id"], array(marker_dict["pixel_corners"]),
                marker_dict["size"], None,
                Some(<<array(marker_dict["rvec"]), array(marker_dict["tvec"])>>))
    ELSE Marker(marker_dict["id"], array(marker_dict["pixel_corners"]),
                marker_dict["size"], None, None)

\* Attribute access by name.
call(op, self, est) ==
    CASE op = "id" -> id(self)
      [] op = "size" -> size(self)
      [] op = "_is_eager" -> is_eager(self)
      [] op = "pixel_corners" -> pixel_corners(self)
      [] op = "pixel_centre" -> pixel_centre(self)
      [] op = "distance" -> distance(self, est)
      [] op = "orientation" -> orientation(self, est)
      [] op = "spherical" -> spherical(self, est)
      [] op = "cartesian" -> cartesian(self, est)
      [] op = "_rvec" -> rvec(self, est)
      [] op = "_tvec" -> tvec(self, est)
      [] op = "as_dict" -> as_dict(self, est)

\* ------------------------------------------------------------- the state
\* marker          the Marker under use
\* ret             the last call made on it: operation, exception, value
\* first           per memo-relevant accessor, the outcome of its first call
\* estimator_calls how often this Marker has invoked the estimator
\* origin          how the Marker was made: by the constructor, or by
\*                 from_dict (with the keys of the dict, and, when the dict was
\*                 another Marker's as_dict(), what that Marker's accessors gave),
\*                 and the Marker as the constructor left it
\* pose_accessed   whether a pose-dependent attribute has been accessed
VARIABLES marker, ret, first, estimator_calls, origin, pose_accessed
vars == <<marker, ret, first, estimator_calls, origin, pose_accessed>>

PoseAccessors == {"distance", "orientation", "cartesian", "spherical"}
PoseDependent == PoseAccessors \cup {"_rvec", "_tvec", "as_dict"}
PoseFree == {"id", "size", "_is_eager", "pixel_corners", "pixel_centre"}
TrackedAccessors == PoseAccessors \cup {"pixel_centre", "as_dict"}

Res(r) == [exc |-> r.exc, val |-> r.val]

\* What a caller sees of a Marker whose pose is resolved (or unavailable).
Observe(self, est) ==
    [ id |-> id(self).val[1],
      size |-> size(self).val[1],
      pixel_corners |-> pixel_corners(self).val[1],
      pixel_centre |-> Res(pixel_centre(self)),
      eager |-> is_eager(self).val[1],
      distance |-> Res(distance(self, est)),
      orientation |-> Res(orientation(self, est)),
      cartesian |-> Res(cartesian(self, est)),
      spherical |-> Res(spherical(self, est)) ]

\* Dicts handed to from_dict: the required keys, each pose key present or not.
InputDicts ==
    LET Base == { [id |-> MARKER_ID, size |-> MARKER_SIZE,
                   pixel_corners |-> Square(10, MARKER_SIZE)] }
    IN Base
       \cup { [id |-> b.id, size |-> b.size, pixel_corners |-> b.pixel_corners,
               rvec |-> r] : b \in Base, r \in RVecs }
       \cup { [id |-> b.id, size |-> b.size, pixel_corners |-> b.pixel_corners,
               tvec |-> t] : b \in Base, t \in TVecs }
       \cup { [id |-> b.id, size |-> b.size, pixel_corners |-> b.pixel_corners,
               rvec |-> r, tvec |-> t] : b \in Base, r \in RVecs, t \in TVecs }

Fresh(m, how, keys, src) ==
    /\ marker' = m
    /\ ret' = [op |-> how, exc |-> NoError, val |-> None]
    /\ first' = [a \in TrackedAccessors |-> None]
    /\ estimator_calls' = 0
    /\ origin' = [how |-> how, keys |-> keys, src |-> src, made |-> m]
    /\ pose_accessed' = FALSE

\* The state after Marker(...): any id, polygon and size; calibration
\* parameters present or not; precalculated vectors present or not.
Init ==
    \E det \in Detections,
       cal \in {None, Some(CalibrationParameters)},
       pre \in {None} \cup { Some(p) : p \in Poses } :
        /\ marker = Marker(det.id, detected(det.corners), det.size, cal, pre)
        /\ ret = [op |-> "__init__", exc |-> NoError, val |-> None]
        /\ first = [a \in TrackedAccessors |-> None]
        /\ estimator_calls = 0
        /\ origin = [how |-> "__init__", keys |-> {}, src |-> None, made |-> marker]
        /\ pose_accessed = FALSE

\* A call of accessor op with outcome r.
Return(op, r) ==
    /\ estimator_calls + r.calls <= MaxCalls
    /\ marker' = r.self
    /\ ret' = [op |-> op, exc |-> r.exc, val |-> r.val]
    /\ first' = IF op \in TrackedAccessors /\ first[op] = None
                THEN [first EXCEPT ![op] = Some(Res(r))]
                ELSE first
    /\ estimator_calls' = estimator_calls + r.calls
    /\ pose_accessed' = (pose_accessed \/ op \in PoseDependent)
    /\ UNCHANGED origin

GetId == Return("id", id(marker))
GetSize == Return("size", size(marker))
IsEager == Return("_is_eager", is_eager(marker))
GetPixelCorners == Return("pixel_corners", pixel_corners(marker))
GetPixelCentre == Return("pixel_centre", pixel_centre(marker))
GetDistance == \E est \in EstimatorOutputs : Return("distance", distance(marker, est))
GetOrientation == \E est \in EstimatorOutputs : Return("orientation", orientation(marker, est))
GetSpherical == \E est \in EstimatorOutputs : Return("spherical", spherical(marker, est))
GetCartesian == \E est \in EstimatorOutputs : Return("cartesian", cartesian(marker, est))
GetRvec == \E est \in EstimatorOutputs : Return("_rvec", rvec(marker, est))
GetTvec == \E est \in EstimatorOutputs : Return("_tvec", tvec(marker, est))
AsDict == \E est \in EstimatorOutputs : Return("as_dict", as_dict(marker, est))

\* Marker.from_dict(d) for a dict d from elsewhere.
FromDict ==
    \E d \in InputDicts : Fresh(from_dict(d), "from_dict", DOMAIN d, None)

\* Marker.from_dict(marker.as_dict()).
RoundTrip ==
    \E est \in EstimatorOutputs :
        LET a == as_dict(marker, est)
        IN /\ estimator_calls + a.calls <= MaxCalls
           /\ Fresh(from_dict(a.val[1]), "from_dict", DOMAIN a.val[1],
                    Some(Observe(a.self, est)))

Next ==
    \/ GetId \/ GetSize \/ IsEager \/ GetPixelCorners \/ GetPixelCentre
    \/ GetDistance \/ GetOrientation \/ GetSpherical \/ GetCartesian
    \/ GetRvec \/ GetTvec \/ AsDict
    \/ FromDict \/ RoundTrip

Spec == Init /\ [][Next]_vars

\* ------------------------------------------------------------ properties
Eager == is_eager(marker).val[1]
HasCalibration == marker.camera_calibration_params # None
PoseAvailable == Eager \/ HasCalibration
LazyWithCalibration == ~Eager /\ HasCalibration
LazySansCalibration == ~Eager /\ ~HasCalibration
BaseKeys == {"id", "size", "pixel_corners"}
PoseKeys == {"rvec", "tvec"}
Called(a) == first[a] # None

\* C1: a Marker constructed with precalculated vectors (calibration parameters
\* supplied or not) has invoked the estimator 0 times after any sequence of
\* accessor calls, no further call would invoke it, and _rvec, _tvec and
\* as_dict give the vectors supplied to the constructor.
C1_EagerNeverEstimates ==
    origin.made.precalculated_vectors # None =>
        LET supplied == origin.made.precalculated_vectors[1]
        IN /\ estimator_calls = 0
           /\ \A est \in EstimatorOutputs, op \in PoseDependent :
                  call(op, marker, est).calls = 0
           /\ ret.op = "_rvec" => ret.exc = NoError /\ ret.val = Some(supplied[1])
           /\ ret.op = "_tvec" => ret.exc = NoError /\ ret.val = Some(supplied[2])
           /\ ret.op = "as_dict" =>
                  /\ ret.val[1]["rvec"] = tolist(supplied[1])
                  /\ ret.val[1]["tvec"] = tolist(supplied[2])
C1_Witness ==
    /\ origin.how = "__init__"
    /\ Eager /\ HasCalibration
    /\ ret.op = "_tvec"
    /\ \A a \in TrackedAccessors : Called(a)

\* C2: on a lazy Marker without calibration parameters every call of distance,
\* orientation, cartesian and spherical raises MissingCalibrationsError, the
\* first call and every later one (nothing is cached in place of the failure),
\* while id, size, pixel_corners and pixel_centre never raise.
C2_MissingCalibrationPropagates ==
    LazySansCalibration =>
        /\ ret.op \in PoseAccessors => ret.exc = MissingCalibrationsError
        /\ ret.op \in {"id", "size", "pixel_corners", "pixel_centre"} =>
               ret.exc = NoError
        /\ \A a \in PoseAccessors :
               Called(a) => first[a][1].exc = MissingCalibrationsError
        /\ \A est \in EstimatorOutputs :
               /\ \A a \in PoseAccessors :
                      call(a, marker, est).exc = MissingCalibrationsError
               /\ \A a \in {"id", "size", "pixel_corners", "pixel_centre"} :
                      call(a, marker, est).exc = NoError
C2_Witness ==
    /\ LazySansCalibration
    /\ origin.how = "__init__"
    /\ \A a \in TrackedAccessors : Called(a)
    /\ ret.op = "spherical" /\ ret.exc = MissingCalibrationsError

\* C3: as_dict never raises; its keys are exactly id, size, pixel_corners on a
\* lazy Marker without calibration parameters and exactly those plus rvec and
\* tvec on a Marker that is eager or has calibration parameters, at any point
\* of any sequence of calls, also after pose accesses that failed.
C3_AsDictKeys ==
    LET Keys == IF PoseAvailable THEN BaseKeys \cup PoseKeys ELSE BaseKeys
    IN /\ ret.op = "as_dict" => ret.exc = NoError /\ DOMAIN ret.val[1] = Keys
       /\ Called("as_dict") =>
              /\ first["as_dict"][1].exc = NoError
              /\ DOMAIN first["as_dict"][1].val[1] = Keys
       /\ \A est \in EstimatorOutputs :
              /\ as_dict(marker, est).exc = NoError
              /\ DOMAIN as_dict(marker, est).val[1] = Keys
C3_Witness ==
    /\ LazySansCalibration
    /\ \A a \in PoseAccessors :
           Called(a) /\ first[a][1].exc = MissingCalibrationsError
    /\ ret.op = "as_dict" /\ DOMAIN ret.val[1] = BaseKeys

\* C4: when m's pose is available, from_dict(as_dict(m)) is an eager Marker
\* with m's id, size, pixel_corners, distance, orientation, cartesian and
\* spherical, and no accessor call on it invokes the estimator.
C4_RoundTripWithPose ==
    (origin.src # None /\ origin.src[1].distance.exc = NoError) =>
        LET m == origin.src[1]
        IN /\ Eager
           /\ id(marker).val[1] = m.id
           /\ size(marker).val[1] = m.size
           /\ pixel_corners(marker).val[1] = m.pixel_corners
           /\ estimator_calls = 0
           /\ \A est \in EstimatorOutputs :
                  /\ \A op \in PoseDependent : call(op, marker, est).calls = 0
                  /\ \A a \in PoseAccessors : Res(call(a, marker, est)) = m[a]
           /\ ret.op \in PoseAccessors => Res(ret) = m[ret.op]
C4_Witness ==
    /\ origin.src # None
    /\ origin.src[1].distance.exc = NoError
    /\ ~origin.src[1].eager
    /\ \A a \in PoseAccessors : Called(a)
    /\ ret.op = "spherical"

\* C5: when m is lazy without calibration parameters, from_dict(as_dict(m)) has
\* m's id, size and pixel_corners, is not eager, raises
\* MissingCalibrationsError on every pose access, and its as_dict has exactly
\* the keys id, size, pixel_corners.
C5_RoundTripSansPose ==
    (origin.src # None /\ origin.src[1].distance.exc = MissingCalibrationsError) =>
        LET m == origin.src[1]
        IN /\ ~Eager
           /\ id(marker).val[1] = m.id
           /\ size(marker).val[1] = m.size
           /\ pixel_corners(marker).val[1] = m.pixel_corners
           /\ ret.op \in PoseAccessors => ret.exc = MissingCalibrationsError
           /\ ret.op = "as_dict" => DOMAIN ret.val[1] = BaseKeys
           /\ \A est \in EstimatorOutputs :
                  /\ \A a \in PoseAccessors :
                         call(a, marker, est).exc = MissingCalibrationsError
                  /\ DOMAIN as_dict(marker, est).val[1] = BaseKeys
C5_Witness ==
    /\ origin.src # None
    /\ origin.src[1].distance.exc = MissingCalibrationsError
    /\ ~origin.src[1].eager
    /\ Called("as_dict") /\ Called("orientation")
    /\ ret.op = "distance" /\ ret.exc = MissingCalibrationsError

\* C6: from_dict gives an eager Marker exactly when the dict has both the rvec
\* and the tvec key; otherwise (also with just one of them) a lazy Marker
\* without calibration parameters, whose every pose access raises
\* MissingCalibrationsError.  Either way it has no calibration parameters.
C6_FromDictEagerIffBothKeys ==
    origin.how = "from_dict" =>
        /\ Eager <=> PoseKeys \subseteq origin.keys
        /\ ~HasCalibration
        /\ origin.made.camera_calibration_params = None
        /\ ~(PoseKeys \subseteq origin.keys) =>
               /\ ret.op \in PoseAccessors => ret.exc = MissingCalibrationsError
               /\ \A est \in EstimatorOutputs, a \in PoseAccessors :
                      call(a, marker, est).exc = MissingCalibrationsError
C6_Witness ==
    /\ origin.how = "from_dict"
    /\ origin.keys = BaseKeys \cup {"rvec"}
    /\ ret.op = "cartesian" /\ ret.exc = MissingCalibrationsError

\* C7: on a Marker whose pose is available, every call of distance,
\* orientation, cartesian, spherical, pixel_centre and as_dict returns what the
\* first call of that accessor returned, all of them derived from one
\* (rvec, tvec) pair; and no accessor call changes id, size, pixel_corners or
\* the eagerness of the Marker.
C7_PoseFixedForLifetime ==
    /\ id(marker).val[1] = id(origin.made).val[1]
    /\ size(marker).val[1] = size(origin.made).val[1]
    /\ pixel_corners(marker).val[1] = pixel_corners(origin.made).val[1]
    /\ is_eager(marker).val[1] = is_eager(origin.made).val[1]
    /\ PoseAvailable =>
           /\ ret.op \in TrackedAccessors => Some(Res(ret)) = first[ret.op]
           /\ \E p \in Poses :
                  LET ref == [origin.made EXCEPT !.precalculated_vectors = Some(p)]
                  IN \A a \in TrackedAccessors, est \in EstimatorOutputs :
                         Called(a) => first[a][1] = Res(call(a, ref, est))
C7_Witness ==
    /\ LazyWithCalibration
    /\ origin.how = "__init__"
    /\ \A a \in TrackedAccessors : Called(a)
    /\ ret.op = "orientation"

\* C8: on a Marker whose pose is available, spherical.dist equals distance,
\* whichever of the two is called first and however often.
C8_SphericalDistIsDistance ==
    PoseAvailable =>
        /\ (Called("spherical") /\ Called("distance")) =>
               first["spherical"][1].val[1].dist = first["distance"][1].val[1]
        /\ (ret.op = "spherical" /\ Called("distance")) =>
               ret.val[1].dist = first["distance"][1].val[1]
        /\ (ret.op = "distance" /\ Called("spherical")) =>
               ret.val[1] = first["spherical"][1].val[1].dist
        /\ \A est \in EstimatorOutputs :
               LET d == distance(marker, est)
               IN spherical(d.self, est).val[1].dist = d.val[1]
        /\ \A est \in EstimatorOutputs :
               LET sp == spherical(marker, est)
               IN distance(sp.self, est).val[1] = sp.val[1].dist
C8_Witness ==
    /\ LazyWithCalibration
    /\ Called("spherical")
    /\ ret.op = "distance"
    /\ SumSq(tolist(marker.cached_pose_vectors[1][2])) # ret.val[1] * ret.val[1]

\* C9: pixel_centre is (top_left.x + size/2 - 1, bottom_right.y - size/2), here
\* with both components doubled, with top_left the first and bottom_right the
\* third pixel corner, on every Marker (lazy, eager, with or without
\* calibration); for top_left (10,10), bottom_right (209,209), size 200 it is
\* (109, 109).
C9_PixelCentreFormula ==
    LET tl == pixel_corners(marker).val[1][1]
        br == pixel_corners(marker).val[1][3]
        sz == size(marker).val[1]
        centre == Coordinates(2 * tl.x + sz - 2, 2 * br.y - sz)
    IN /\ pixel_centre(marker).exc = NoError
       /\ pixel_centre(marker).val[1] = centre
       /\ ret.op = "pixel_centre" => ret.exc = NoError /\ ret.val[1] = centre
       /\ (tl = Coordinates(10, 10) /\ br = Coordinates(209, 209) /\ sz = 200) =>
              pixel_centre(marker).val[1] = Coordinates(2 * 109, 2 * 109)
C9_Witness ==
    /\ LazySansCalibration
    /\ ret.op = "pixel_centre"
    /\ Called("distance")
    /\ pixel_corners(marker).val[1][1] = Coordinates(10, 10)
    /\ pixel_corners(marker).val[1][3] = Coordinates(209, 209)
    /\ size(marker).val[1] = 200
    /\ ret.val[1] = Coordinates(218, 218)

\* C10: a lazy Marker with calibration parameters invokes the estimator exactly
\* once, on the first pose-dependent access, and never again: every later
\* access returns the memoized pair.
C10_EstimatorInvokedOnce ==
    LazyWithCalibration =>
        /\ estimator_calls = IF pose_accessed THEN 1 ELSE 0
        /\ pose_accessed =>
               /\ \A est \in EstimatorOutputs, op \in PoseDependent :
                      call(op, marker, est).calls = 0
               /\ \A e1 \in EstimatorOutputs, e2 \in EstimatorOutputs :
                      /\ rvec(marker, e1).val = rvec(marker, e2).val
                      /\ tvec(marker, e1).val = tvec(marker, e2).val
        /\ ~pose_accessed =>
               \A est \in EstimatorOutputs, op \in PoseDependent :
                   call(op, marker, est).calls = 1
C10_Witness ==
    /\ LazyWithCalibration
    /\ estimator_calls = 1
    /\ \A a \in TrackedAccessors : Called(a)
    /\ ret.op = "_tvec"

====
